---- MODULE Spec2Model ----
(***************************************************************************)
(* Model of equipment_tracking_dash.py: load_data (normalisation and       *)
(* derivation), the filter step, calculate_kpis, the alerts section and    *)
(* the vendor rollups of main().                                           *)
(*                                                                         *)
(* A table cell is a record [k, n, s]: k is the kind ("nan" for a missing  *)
(* value NaN/NaT, "num", "date", "text"), n the numeric payload and s the  *)
(* text payload.  Timestamps are integers (ticks); TicksPerDay ticks make  *)
(* a day.  An Estimated Total Cost cell holds the exact rational cost      *)
(* multiplied by CostDen, so that days/7 and days/30 need no rounding.     *)
(***************************************************************************)
EXTENDS Integers, Sequences, FiniteSets, TLC

\* ------------------------------------------------------------------ bounds
MaxRows == 2
MaxTicks == 1
TicksPerDay == 2

\* ------------------------------------------------------- program constants
WeekDays == 7
MonthDays == 30
OverDurationDays == 7
CostDen == WeekDays * MonthDays

\* ------------------------------------------------------------------- cells
NaN == [k |-> "nan", n |-> 0, s |-> ""]
Num(v) == [k |-> "num", n |-> v, s |-> ""]
Date(t) == [k |-> "date", n |-> t, s |-> ""]
Text(t) == [k |-> "text", n |-> 0, s |-> t]

\* pd.notnull / pd.isnull
notnull(c) == c.k # "nan"

\* ----------------------------------------------------------------- frames
\* A DataFrame: its set of column names and its rows in order, each row a
\* function from the column names to cells.
EmptyDf == [cols |-> {}, rows |-> <<>>]

\* df[col] = F(row) for every row: adds the column or overwrites it.
SetCol(df, col, F(_)) ==
    [cols |-> df.cols \cup {col},
     rows |-> [i \in 1..Len(df.rows) |->
                 [c \in df.cols \cup {col} |->
                    IF c = col THEN F(df.rows[i]) ELSE df.rows[i][c]]]]

\* df[mask]: the rows satisfying P, in their original order.
SelectRows(df, P(_)) ==
    [cols |-> df.cols, rows |-> SelectSeq(df.rows, P)]

\* ---------------------------------------------------------------- load_data
\* df.columns.str.strip(): the padded headers the inputs use.
Strip(name) ==
    CASE name = " Vendor " -> "Vendor"
      [] name = "Unit Rate " -> "Unit Rate"
      [] OTHER -> name

StripColumns(df) ==
    LET newcols == {Strip(c) : c \in df.cols}
        raw(c) == CHOOSE r \in df.cols : Strip(r) = c
    IN [cols |-> newcols,
        rows |-> [i \in 1..Len(df.rows) |->
                    [c \in newcols |-> df.rows[i][raw(c)]]]]

date_cols == {"Last Inspection Date", "Next Inspection Due",
              "Mobilization Date", "Planned Demob Date", "Actual Demob Date"}

\* pd.to_datetime(errors='coerce') on one cell.
ToDatetime(c) ==
    CASE c.k = "date" -> c
      [] c.k = "num" -> Date(c.n)
      [] OTHER -> NaN

\* pd.to_numeric(errors='coerce') on one cell.
ToNumeric(c) == IF c.k = "num" THEN c ELSE NaN

RECURSIVE ConvertDates(_, _)
ConvertDates(df, todo) ==
    IF todo = {} THEN df
    ELSE LET col == CHOOSE c \in todo : TRUE
             conv(row) == ToDatetime(row[col])
         IN ConvertDates(IF col \in df.cols THEN SetCol(df, col, conv) ELSE df,
                         todo \ {col})

\* Clip0 without the clamp.
Clip0_NoClamp(d) == d

\* (now - Mobilization Date).dt.days, then clip(lower=0).
Clip0(d) == IF d < 0 THEN 0 ELSE d

DaysOnsiteOf(mob, now) ==
    IF notnull(mob) THEN Num(Clip0((now - mob.n) \div TicksPerDay)) ELSE NaN

AddDaysOnsite(df, now) ==
    LET days(row) == DaysOnsiteOf(row["Mobilization Date"], now)
    IN IF "Mobilization Date" \in df.cols
       THEN SetCol(df, "Days Onsite", days) ELSE df

\* Days Onsite - Planned Duration (Days): the planned column is still as
\* read (it is never passed through to_numeric), so a text cell in it makes
\* the subtraction raise TypeError.
VarianceRaises(df) ==
    /\ "Planned Duration (Days)" \in df.cols
    /\ "Days Onsite" \in df.cols
    /\ \E i \in 1..Len(df.rows) : df.rows[i]["Planned Duration (Days)"].k = "text"

DurationVarianceOf(days, planned) ==
    IF notnull(days) /\ notnull(planned) THEN Num(days.n - planned.n) ELSE NaN

AddDurationVariance(df) ==
    LET var(row) == DurationVarianceOf(row["Days Onsite"],
                                       row["Planned Duration (Days)"])
    IN IF "Planned Duration (Days)" \in df.cols /\ "Days Onsite" \in df.cols
       THEN SetCol(df, "Duration Variance", var) ELSE df

ConvertNumeric(df) ==
    LET rate(row) == ToNumeric(row["Unit Rate"])
        qty(row) == ToNumeric(row["Quantity"])
        d1 == IF "Unit Rate" \in df.cols THEN SetCol(df, "Unit Rate", rate) ELSE df
    IN IF "Quantity" \in d1.cols THEN SetCol(d1, "Quantity", qty) ELSE d1

\* EstimatedCostOf with the weekly divisor taken for the monthly one.
EstimatedCostOf_WeeklyAsMonthly(basis, rate, daysOnsite) ==
    LET days == IF notnull(daysOnsite) THEN daysOnsite.n ELSE 0
        r == IF notnull(rate) THEN rate.n ELSE 0
    IN IF notnull(basis)
       THEN CASE basis = Text("Daily") -> Num(days * r * CostDen)
              [] basis = Text("Weekly") -> Num(days * r * (CostDen \div MonthDays))
              [] basis = Text("Monthly") -> Num(days * r * (CostDen \div MonthDays))
              [] OTHER -> Num(0)
       ELSE Num(0)

\* The body of the iterrows loop: the cost of one row, times CostDen.
EstimatedCostOf(basis, rate, daysOnsite) ==
    LET days == IF notnull(daysOnsite) THEN daysOnsite.n ELSE 0
        r == IF notnull(rate) THEN rate.n ELSE 0
    IN IF notnull(basis)
       THEN CASE basis = Text("Daily") -> Num(days * r * CostDen)
              [] basis = Text("Weekly") -> Num(days * r * (CostDen \div WeekDays))
              [] basis = Text("Monthly") -> Num(days * r * (CostDen \div MonthDays))
              [] OTHER -> Num(0)
       ELSE Num(0)

AddEstimatedCost(df) ==
    LET cost(row) == EstimatedCostOf(row["Billing Basis"], row["Unit Rate"],
                                     row["Days Onsite"])
    IN IF "Unit Rate" \in df.cols /\ "Days Onsite" \in df.cols
          /\ "Billing Basis" \in df.cols
       THEN SetCol(df, "Estimated Total Cost", cost) ELSE df

\* load_data(file) evaluated at clock reading now: ok = FALSE when it raises.
load_data(file, now) ==
    IF file.corrupt THEN [ok |-> FALSE, df |-> EmptyDf]
    ELSE LET d0 == StripColumns([cols |-> file.cols, rows |-> file.rows])
             d1 == ConvertDates(d0, date_cols)
             d2 == AddDaysOnsite(d1, now)
         IN IF VarianceRaises(d2) THEN [ok |-> FALSE, df |-> EmptyDf]
            ELSE [ok |-> TRUE,
                  df |-> AddEstimatedCost(ConvertNumeric(AddDurationVariance(d2)))]

\* ------------------------------------------------------------ text matching
\* The characters of the status texts and patterns the inputs use (a string
\* is atomic for the model checker, so its characters are tabulated).
Chars(str) ==
    CASE str = "Active" -> <<"A","c","t","i","v","e">>
      [] str = "Idle" -> <<"I","d","l","e">>
      [] str = "Maintenance" -> <<"M","a","i","n","t","e","n","a","n","c","e">>
      [] str = "ACTIVE - Night Shift" ->
            <<"A","C","T","I","V","E"," ","-"," ","N","i","g","h","t"," ",
              "S","h","i","f","t">>
      [] str = "Inactive" -> <<"I","n","a","c","t","i","v","e">>
      [] str = "idle" -> <<"i","d","l","e">>
      [] str = "Idle - Maintenance" ->
            <<"I","d","l","e"," ","-"," ","M","a","i","n","t","e","n","a","n","c","e">>
      [] str = "Under Maintenance" ->
            <<"U","n","d","e","r"," ","M","a","i","n","t","e","n","a","n","c","e">>
      [] str = "Demobilized" -> <<"D","e","m","o","b","i","l","i","z","e","d">>
      [] OTHER -> <<>>

Upper == <<"A","B","C","D","E","F","G","H","I","J","K","L","M",
           "N","O","P","Q","R","S","T","U","V","W","X","Y","Z">>
Lower == <<"a","b","c","d","e","f","g","h","i","j","k","l","m",
           "n","o","p","q","r","s","t","u","v","w","x","y","z">>

LowerChar(ch) ==
    IF \E i \in 1..Len(Upper) : Upper[i] = ch
    THEN Lower[CHOOSE i \in 1..Len(Upper) : Upper[i] = ch]
    ELSE ch

LowerSeq(cs) == [i \in 1..Len(cs) |-> LowerChar(cs[i])]

IsSubSeq(pat, cs) ==
    \E off \in 0..(Len(cs) - Len(pat)) :
        \A i \in 1..Len(pat) : cs[off + i] = pat[i]

\* str_contains with na=True: a missing value matches.
str_contains_NaTrue(c, pat) ==
    \/ c.k # "text"
    \/ IsSubSeq(LowerSeq(Chars(pat)), LowerSeq(Chars(c.s)))

\* str_contains matching case-sensitively.
str_contains_CaseSensitive(c, pat) ==
    /\ c.k = "text"
    /\ IsSubSeq(Chars(pat), Chars(c.s))

\* Series.str.contains(pat, case=False, na=False) on one cell.
str_contains(c, pat) ==
    /\ c.k = "text"
    /\ IsSubSeq(LowerSeq(Chars(pat)), LowerSeq(Chars(c.s)))

\* ----------------------------------------------------------- calculate_kpis
RECURSIVE SumSeq(_)
SumSeq(xs) == IF xs = <<>> THEN 0 ELSE Head(xs) + SumSeq(Tail(xs))

\* ColSum that yields a missing value (-1) for an empty column, as
\* sum(min_count=1) does.
ColSum_EmptyIsMissing(df, col) ==
    IF df.rows = <<>> THEN -1
    ELSE SumSeq([i \in 1..Len(df.rows) |->
                   IF notnull(df.rows[i][col]) THEN df.rows[i][col].n ELSE 0])

\* Series.sum(): missing values are skipped.
ColSum(df, col) ==
    SumSeq([i \in 1..Len(df.rows) |->
              IF notnull(df.rows[i][col]) THEN df.rows[i][col].n ELSE 0])

CountRows(df, P(_)) == Len(SelectSeq(df.rows, P))

StatusCount(df, pat) ==
    LET hit(row) == str_contains(row["Current Status"], pat)
    IN IF "Current Status" \in df.cols THEN CountRows(df, hit) ELSE 0

\* Next Inspection Due < datetime.now()
IsOverdue(c, now) == notnull(c) /\ c.n < now

\* IsOverDuration firing from 7 days on.
IsOverDuration_AtLeast(c) == notnull(c) /\ c.n >= OverDurationDays

\* Duration Variance > 7
IsOverDuration(c) == notnull(c) /\ c.n > OverDurationDays

OverdueCount(df, now) ==
    LET hit(row) == IsOverdue(row["Next Inspection Due"], now)
    IN IF "Next Inspection Due" \in df.cols THEN CountRows(df, hit) ELSE 0

OverDurationCount(df) ==
    LET hit(row) == IsOverDuration(row["Duration Variance"])
    IN IF "Duration Variance" \in df.cols THEN CountRows(df, hit) ELSE 0

\* calculate_kpis counting the distinct flagged records as alerts.
calculate_kpis_DistinctAlerts(df, now) ==
    LET flagged(row) ==
            \/ "Next Inspection Due" \in df.cols
                  /\ IsOverdue(row["Next Inspection Due"], now)
            \/ "Duration Variance" \in df.cols
                  /\ IsOverDuration(row["Duration Variance"])
    IN [total |-> Len(df.rows),
        active |-> StatusCount(df, "Active"),
        idle |-> StatusCount(df, "Idle"),
        maintenance |-> StatusCount(df, "Maintenance"),
        total_cost |-> IF "Estimated Total Cost" \in df.cols
                       THEN ColSum(df, "Estimated Total Cost") ELSE 0,
        alerts |-> CountRows(df, flagged)]

calculate_kpis(df, now) ==
    [total |-> Len(df.rows),
     active |-> StatusCount(df, "Active"),
     idle |-> StatusCount(df, "Idle"),
     maintenance |-> StatusCount(df, "Maintenance"),
     total_cost |-> IF "Estimated Total Cost" \in df.cols
                    THEN ColSum(df, "Estimated Total Cost") ELSE 0,
     alerts |-> OverdueCount(df, now) + OverDurationCount(df)]

NoKpis == [total |-> -1, active |-> -1, idle |-> -1, maintenance |-> -1,
           total_cost |-> -1, alerts |-> -1]

\* ------------------------------------------------------------- filter step
FilterDims == {"Vendor", "Current Status", "Category", "Payment Type"}

\* ['All'] + sorted(df[col].dropna().unique().tolist()), as a set; only
\* 'All' when the column is absent.
Options(df, col) ==
    IF col \in df.cols
    THEN {"All"} \cup {df.rows[i][col].s :
                         i \in {j \in 1..Len(df.rows) : notnull(df.rows[j][col])}}
    ELSE {"All"}

AllSelected == [d \in FilterDims |-> "All"]

\* FilterBy that lets the records with a missing value through.
FilterBy_KeepMissing(df, col, selected) ==
    LET eq(row) == ~notnull(row[col]) \/ (row[col].k = "text" /\ row[col].s = selected)
    IN IF selected # "All" THEN SelectRows(df, eq) ELSE df

\* filtered_df[filtered_df[col] == selected]
FilterBy(df, col, selected) ==
    LET eq(row) == row[col].k = "text" /\ row[col].s = selected
    IN IF selected # "All" THEN SelectRows(df, eq) ELSE df

ApplyFilters(df, sel) ==
    FilterBy(FilterBy(FilterBy(FilterBy(df, "Vendor", sel["Vendor"]),
                               "Current Status", sel["Current Status"]),
                      "Category", sel["Category"]),
             "Payment Type", sel["Payment Type"])

\* ------------------------------------------------------------ vendor rollup
\* The vendor names of the inputs in sorted order: groupby('Vendor') lists
\* its groups by ascending key and drops the rows whose key is missing.
VendorOrder == <<"Acme", "Bolt">>

GroupKeys(df) ==
    LET present(v) == \E i \in 1..Len(df.rows) : df.rows[i]["Vendor"] = Text(v)
    IN SelectSeq(VendorOrder, present)

\* GroupRow that sums the cost of the whole frame into every group.
GroupRow_WholeFrameCost(df, v) ==
    LET inGroup(row) == row["Vendor"] = Text(v)
        g == SelectRows(df, inGroup)
        hasDesc(row) == notnull(row["Equipment Description"])
        hasDays(row) == notnull(row["Days Onsite"])
    IN [Vendor |-> v,
        EquipmentCount |-> CountRows(g, hasDesc),
        TotalCost |-> ColSum(df, "Estimated Total Cost"),
        DaysSum |-> IF "Days Onsite" \in df.cols THEN ColSum(g, "Days Onsite") ELSE 0,
        DaysCount |-> IF "Days Onsite" \in df.cols THEN CountRows(g, hasDays) ELSE 0]

\* One group of .agg({'Equipment Description': 'count',
\* 'Estimated Total Cost': 'sum', 'Days Onsite': 'mean'}); the mean is kept
\* as the sum and the number of its non-missing values.
GroupRow(df, v) ==
    LET inGroup(row) == row["Vendor"] = Text(v)
        g == SelectRows(df, inGroup)
        hasDesc(row) == notnull(row["Equipment Description"])
        hasDays(row) == notnull(row["Days Onsite"])
    IN [Vendor |-> v,
        EquipmentCount |-> CountRows(g, hasDesc),
        TotalCost |-> ColSum(g, "Estimated Total Cost"),
        DaysSum |-> IF "Days Onsite" \in df.cols THEN ColSum(g, "Days Onsite") ELSE 0,
        DaysCount |-> IF "Days Onsite" \in df.cols THEN CountRows(g, hasDays) ELSE 0]

GroupByVendor(df) ==
    LET keys == GroupKeys(df)
    IN [i \in 1..Len(keys) |-> GroupRow(df, keys[i])]

\* .agg raises KeyError when a column it names is absent.
AggRaises(df, aggcols) == ~(aggcols \subseteq df.cols)

\* InsertDesc ordering by ascending cost.
RECURSIVE InsertDesc_Ascending(_, _)
InsertDesc_Ascending(sorted, g) ==
    IF sorted = <<>> THEN <<g>>
    ELSE IF Head(sorted).TotalCost <= g.TotalCost
         THEN <<Head(sorted)>> \o InsertDesc_Ascending(Tail(sorted), g)
         ELSE <<g>> \o sorted

\* sort_values('Total Cost', ascending=False): descending, rows of equal
\* cost keep their relative order (the default quicksort leaves equal rows
\* in place on tables this small).
RECURSIVE InsertDesc(_, _)
InsertDesc(sorted, g) ==
    IF sorted = <<>> THEN <<g>>
    ELSE IF Head(sorted).TotalCost >= g.TotalCost
         THEN <<Head(sorted)>> \o InsertDesc(Tail(sorted), g)
         ELSE <<g>> \o sorted

RECURSIVE SortByCostDesc(_)
SortByCostDesc(gs) ==
    IF gs = <<>> THEN <<>>
    ELSE InsertDesc(SortByCostDesc(SubSeq(gs, 1, Len(gs) - 1)), gs[Len(gs)])

ChartCols == {"Equipment Description", "Estimated Total Cost"}
SummaryCols == {"Equipment Description", "Estimated Total Cost", "Days Onsite"}
TimelineCols == {"Equipment Description", "Vendor", "Mobilization Date",
                 "Planned Demob Date", "Current Status"}

\* create_vendor_chart followed by the vendor summary table of the tab.
VendorTabRaises(df) ==
    "Vendor" \in df.cols /\ (AggRaises(df, ChartCols) \/ AggRaises(df, SummaryCols))

vendor_summary_of(df) ==
    IF "Vendor" \in df.cols THEN SortByCostDesc(GroupByVendor(df)) ELSE <<>>

\* The vendor summary of the download tab: grouped, not sorted.
vendor_export_of(df) ==
    IF "Vendor" \in df.cols THEN GroupByVendor(df) ELSE <<>>

\* create_timeline_chart
TimelineRaises(df) ==
    /\ "Mobilization Date" \in df.cols
    /\ "Equipment Description" \in df.cols
    /\ ~(TimelineCols \subseteq df.cols)

\* ---------------------------------------------------------- alerts section
OverdueList(df, now) ==
    LET hit(row) == IsOverdue(row["Next Inspection Due"], now)
    IN IF "Next Inspection Due" \in df.cols THEN SelectSeq(df.rows, hit) ELSE <<>>

OverDurationList(df) ==
    LET hit(row) == IsOverDuration(row["Duration Variance"])
    IN IF "Duration Variance" \in df.cols THEN SelectSeq(df.rows, hit) ELSE <<>>

\* overdue[['Equipment Description', 'Vendor', ...]] raises KeyError when a
\* listed column is absent.
DrillCols == {"Equipment Description", "Vendor"}

\* ------------------------------------------------------------------ inputs
\* The clock reading at the first run, and timestamps relative to it.
StartNow == 31 * TicksPerDay
DaysAgo(d) == Date(StartNow - d * TicksPerDay)
Future == Date(StartNow + 5 * TicksPerDay)
AtStart == Date(StartNow)

\* A column left out of a single-row input.
Absent == [k |-> "absent", n |-> 0, s |-> ""]

BaseRow ==
    [c \in {"Equipment Description", "Vendor", "Current Status",
            "Billing Basis", "Unit Rate", "Mobilization Date",
            "Planned Demob Date", "Next Inspection Due",
            "Planned Duration (Days)"} |->
        CASE c = "Equipment Description" -> Text("Crane")
          [] c = "Vendor" -> Text("Acme")
          [] c = "Current Status" -> Text("Active")
          [] c = "Billing Basis" -> Text("Daily")
          [] c = "Unit Rate" -> Num(100)
          [] c = "Mobilization Date" -> DaysAgo(10)
          [] c = "Planned Demob Date" -> Future
          [] c = "Next Inspection Due" -> Future
          [] c = "Planned Duration (Days)" -> Num(3)]

\* BaseRow with the cells of over replaced.
With(over) == over @@ BaseRow

\* A one-row table; a cell equal to Absent means the column does not exist.
OneRow(vals) ==
    LET cols == {c \in DOMAIN vals : vals[c] # Absent}
    IN [corrupt |-> FALSE, cols |-> cols, rows |-> <<[c \in cols |-> vals[c]]>>]

\* The tables of at most MaxRows rows drawn from recs, which all have the
\* same columns.
Tables(recs) ==
    {[corrupt |-> FALSE, cols |-> DOMAIN (CHOOSE r \in recs : TRUE), rows |-> rs] :
        rs \in UNION {[1..n -> recs] : n \in 0..MaxRows}}

BasisCells == {Absent, NaN, Text("Daily"), Text("Weekly"), Text("Monthly"),
               Text("Hourly")}
RateCells == {Absent, NaN, Text("abc"), Num(100), Num(700), Num(3000)}
MobCells == {Absent, NaN, Text("not a date"), DaysAgo(10), DaysAgo(14),
             DaysAgo(30), Future}
PlannedCells == {Absent, NaN, Text("abc"), Num(3), Num(4)}
DueCells == {Absent, NaN, Text("not a date"), DaysAgo(1), AtStart}

\* One record, every combination of billing basis, rate and mobilization.
CostFiles ==
    {OneRow(With(("Billing Basis" :> b) @@ ("Unit Rate" :> r)
                 @@ ("Mobilization Date" :> m))) :
        b \in BasisCells, r \in RateCells, m \in MobCells}

\* One record, every combination of mobilization, planned duration and
\* inspection due date.
VarianceFiles ==
    {OneRow(With(("Mobilization Date" :> m) @@ ("Planned Duration (Days)" :> p)
                 @@ ("Next Inspection Due" :> d))) :
        m \in MobCells, p \in PlannedCells, d \in DueCells}

\* Records differing in vendor and category, for the filter step.
FilterRecs ==
    {With(("Vendor" :> vc[1]) @@ ("Category" :> vc[2])
          @@ ("Payment Type" :> Text("Rental")) @@ ("Current Status" :> NaN)) :
        vc \in {<<Text("Acme"), Text("Lifting")>>,
                <<Text("Acme"), Text("Earthworks")>>,
                <<Text("Bolt"), Text("Earthworks")>>,
                <<NaN, Text("Lifting")>>}}

\* Records differing in status.
StatusRecs ==
    {With("Current Status" :> st) :
        st \in {Text("ACTIVE - Night Shift"), Text("Inactive"),
                Text("Idle - Maintenance"), Text("Demobilized"), NaN}}

\* Records differing in vendor, cost and alerts.
VendorRecs ==
    {With(("Vendor" :> v) @@ ("Mobilization Date" :> m)
          @@ ("Next Inspection Due" :> d)) :
        v \in {Text("Acme"), Text("Bolt"), NaN},
        m \in {DaysAgo(10), DaysAgo(14)},
        d \in {AtStart}}

\* A table without the status column, a table with padded headers and a
\* quantity column, and a file that cannot be parsed.
SpecialFiles ==
    {OneRow(With("Current Status" :> Absent)),
     [corrupt |-> FALSE,
      cols |-> {" Vendor ", "Unit Rate ", "Quantity"},
      rows |-> <<[c \in {" Vendor ", "Unit Rate ", "Quantity"} |->
                    CASE c = " Vendor " -> Text("Acme")
                      [] c = "Unit Rate " -> Num(100)
                      [] OTHER -> Text("two")]>>],
     [corrupt |-> TRUE, cols |-> {}, rows |-> <<>>]}

\* The columns the stages after load_data read.
OptionalCols == {"Equipment Description", "Vendor", "Current Status",
                 "Billing Basis", "Mobilization Date", "Planned Demob Date"}

\* One record with an overdue inspection, under every subset of OptionalCols.
ColumnSubsetFiles ==
    {OneRow([c \in DOMAIN BaseRow |->
               IF c \in dropped THEN Absent
               ELSE IF c = "Next Inspection Due" THEN DaysAgo(1)
               ELSE BaseRow[c]]) :
        dropped \in SUBSET OptionalCols}

Files == CostFiles \cup VarianceFiles \cup Tables(FilterRecs)
         \cup Tables(StatusRecs) \cup Tables(VendorRecs) \cup SpecialFiles
         \cup ColumnSubsetFiles

\* ------------------------------------------------------------ state machine
VARIABLES
    file,            \* the uploaded file
    now,             \* the clock (datetime.now())
    pc,              \* position of the current run of main()
    cache,           \* st.cache_data entry of load_data for the file
    df,              \* canonical record set of the run
    loadNow,         \* clock reading load_data used for df
    sel,             \* sidebar selections
    filtered_df,
    kpis,
    kpiNow,          \* clock reading of calculate_kpis
    overdue,         \* drill-down lists of the alerts section
    over_duration,
    drillNow,        \* clock reading of the alerts section
    vendor_summary,  \* table of the Vendor Analytics tab
    vendor_export,   \* table of the Download tab
    delivered,       \* results rendered by the current run
    errors           \* st.error calls of the current run

vars == <<file, now, pc, cache, df, loadNow, sel, filtered_df, kpis,
          kpiNow, overdue, over_duration, drillNow, vendor_summary,
          vendor_export, delivered, errors>>

NoCache == [hit |-> FALSE, df |-> EmptyDf, at |-> -1]

RunLocalsInit ==
    /\ df = EmptyDf
    /\ loadNow = -1
    /\ sel = AllSelected
    /\ filtered_df = EmptyDf
    /\ kpis = NoKpis
    /\ kpiNow = -1
    /\ overdue = <<>>
    /\ over_duration = <<>>
    /\ drillNow = -1
    /\ vendor_summary = <<>>
    /\ vendor_export = <<>>
    /\ delivered = {}
    /\ errors = 0

Init ==
    /\ file \in Files
    /\ now = StartNow
    /\ pc = "start"
    /\ cache = NoCache
    /\ RunLocalsInit

\* The clock advances; only the steps that read it can tell, so it is let
\* advance just before each of them (LoadData, CalculateKpis, AlertsSection).
Tick ==
    /\ pc \in {"start", "filtered", "kpis"}
    /\ now < StartNow + MaxTicks
    /\ now' = now + 1
    /\ UNCHANGED <<file, pc, cache, df, loadNow, sel, filtered_df, kpis,
                   kpiNow, overdue, over_duration, drillNow, vendor_summary,
                   vendor_export, delivered, errors>>

\* except Exception as e: st.error(...)
Fail ==
    /\ pc' = "error"
    /\ errors' = errors + 1

\* df = load_data(uploaded_file), memoised by st.cache_data.
LoadData ==
    /\ pc = "start"
    /\ IF cache.hit
       THEN /\ df' = cache.df
            /\ loadNow' = cache.at
            /\ pc' = "loaded"
            /\ UNCHANGED <<cache, errors>>
       ELSE LET r == load_data(file, now)
            IN IF r.ok
               THEN /\ df' = r.df
                    /\ loadNow' = now
                    /\ cache' = [hit |-> TRUE, df |-> r.df, at |-> now]
                    /\ pc' = "loaded"
                    /\ UNCHANGED errors
               ELSE /\ Fail
                    /\ UNCHANGED <<cache, df, loadNow>>
    /\ UNCHANGED <<file, now, sel, filtered_df, kpis, kpiNow, overdue,
                   over_duration, drillNow, vendor_summary, vendor_export,
                   delivered>>

\* SelectFilters filtering df itself instead of a copy of it.
SelectFilters_InPlace ==
    /\ pc = "loaded"
    /\ \E v \in Options(df, "Vendor"), st \in Options(df, "Current Status"),
          c \in Options(df, "Category"), p \in Options(df, "Payment Type") :
          LET s == [d \in FilterDims |->
                      CASE d = "Vendor" -> v
                        [] d = "Current Status" -> st
                        [] d = "Category" -> c
                        [] d = "Payment Type" -> p]
          IN
          /\ sel' = s
          /\ df' = ApplyFilters(df, s)
          /\ filtered_df' = ApplyFilters(df, s)
    /\ pc' = "filtered"
    /\ UNCHANGED <<file, now, cache, loadNow, kpis, kpiNow, overdue,
                   over_duration, drillNow, vendor_summary, vendor_export,
                   delivered, errors>>

\* The sidebar selectboxes and the filter step.
SelectFilters ==
    /\ pc = "loaded"
    /\ \E v \in Options(df, "Vendor"), st \in Options(df, "Current Status"),
          c \in Options(df, "Category"), p \in Options(df, "Payment Type") :
          LET s == [d \in FilterDims |->
                      CASE d = "Vendor" -> v
                        [] d = "Current Status" -> st
                        [] d = "Category" -> c
                        [] d = "Payment Type" -> p]
          IN
          /\ sel' = s
          /\ filtered_df' = ApplyFilters(df, s)
    /\ pc' = "filtered"
    /\ UNCHANGED <<file, now, cache, df, loadNow, kpis, kpiNow, overdue,
                   over_duration, drillNow, vendor_summary, vendor_export,
                   delivered, errors>>

\* kpis = calculate_kpis(filtered_df) and the KPI section.
CalculateKpis ==
    /\ pc = "filtered"
    /\ kpis' = calculate_kpis(filtered_df, now)
    /\ kpiNow' = now
    /\ delivered' = delivered \cup {"kpis"}
    /\ pc' = "kpis"
    /\ UNCHANGED <<file, now, cache, df, loadNow, sel, filtered_df, overdue,
                   over_duration, drillNow, vendor_summary, vendor_export, errors>>

\* The alerts section of the overview tab.
AlertsSection ==
    /\ pc = "kpis"
    /\ IF kpis.alerts > 0
       THEN LET od == OverdueList(filtered_df, now)
                ov == OverDurationList(filtered_df)
                canShow == DrillCols \subseteq filtered_df.cols
            IN /\ drillNow' = now
               /\ overdue' = od
               /\ IF od # <<>> /\ ~canShow
                  THEN /\ Fail
                       /\ UNCHANGED <<over_duration, delivered>>
                  ELSE /\ over_duration' = ov
                       /\ IF ov # <<>> /\ ~canShow
                          THEN /\ Fail
                               /\ delivered' = delivered \cup
                                     (IF od # <<>> THEN {"overdue"} ELSE {})
                          ELSE /\ pc' = "alerts"
                               /\ delivered' = delivered
                                     \cup (IF od # <<>> THEN {"overdue"} ELSE {})
                                     \cup (IF ov # <<>> THEN {"over_duration"} ELSE {})
                               /\ UNCHANGED errors
       ELSE /\ pc' = "alerts"
            /\ UNCHANGED <<overdue, over_duration, drillNow, delivered, errors>>
    /\ UNCHANGED <<file, now, cache, df, loadNow, sel, filtered_df, kpis,
                   kpiNow, vendor_summary, vendor_export>>

\* The Vendor Analytics tab: create_vendor_chart and the vendor summary.
VendorAnalytics ==
    /\ pc = "alerts"
    /\ IF VendorTabRaises(filtered_df)
       THEN /\ Fail
            /\ UNCHANGED <<vendor_summary, delivered>>
       ELSE /\ vendor_summary' = vendor_summary_of(filtered_df)
            /\ delivered' = delivered \cup
                  (IF "Vendor" \in filtered_df.cols THEN {"vendor_summary"} ELSE {})
            /\ pc' = "vendor"
            /\ UNCHANGED errors
    /\ UNCHANGED <<file, now, cache, df, loadNow, sel, filtered_df, kpis,
                   kpiNow, overdue, over_duration, drillNow, vendor_export>>

\* The Timeline tab: create_timeline_chart.
Timeline ==
    /\ pc = "vendor"
    /\ IF TimelineRaises(filtered_df)
       THEN Fail
       ELSE pc' = "timeline" /\ UNCHANGED errors
    /\ UNCHANGED <<file, now, cache, df, loadNow, sel, filtered_df, kpis,
                   kpiNow, overdue, over_duration, drillNow, vendor_summary,
                   vendor_export, delivered>>

\* The Download tab: the exported vendor summary.
DownloadReports ==
    /\ pc = "timeline"
    /\ vendor_export' = vendor_export_of(filtered_df)
    /\ delivered' = delivered \cup {"exports"}
    /\ pc' = "done"
    /\ UNCHANGED <<file, now, cache, df, loadNow, sel, filtered_df, kpis,
                   kpiNow, overdue, over_duration, drillNow, vendor_summary,
                   errors>>

\* A widget interaction reruns the script from the top; the cache persists.
Rerun ==
    /\ pc \in {"done", "error"}
    /\ pc' = "start"
    /\ df' = EmptyDf
    /\ loadNow' = -1
    /\ sel' = AllSelected
    /\ filtered_df' = EmptyDf
    /\ kpis' = NoKpis
    /\ kpiNow' = -1
    /\ overdue' = <<>>
    /\ over_duration' = <<>>
    /\ drillNow' = -1
    /\ vendor_summary' = <<>>
    /\ vendor_export' = <<>>
    /\ delivered' = {}
    /\ errors' = 0
    /\ UNCHANGED <<file, now, cache>>

Next ==
    \/ Tick
    \/ LoadData
    \/ SelectFilters
    \/ CalculateKpis
    \/ AlertsSection
    \/ VendorAnalytics
    \/ Timeline
    \/ DownloadReports
    \/ Rerun

Spec == Init /\ [][Next]_vars

\* ------------------------------------------------------------- properties
\* The cell of a row, Absent when the row has no such field.
Cell(row, col) == IF col \in DOMAIN row THEN row[col] ELSE Absent

\* The cell of row i of the uploaded file under the cleaned column name.
RawCell(i, col) ==
    LET rc == {r \in file.cols : Strip(r) = col}
    IN IF rc = {} THEN Absent ELSE file.rows[i][CHOOSE r \in rc : TRUE]

\* load_data has returned df in this run.
Loaded == loadNow # -1

Missing(c) == c.k \in {"nan", "absent"}

\* C1: after load_data, Days Onsite of every record is never negative, is 0
\* when the Mobilization Date is later than the evaluation time, and is
\* missing exactly when the Mobilization Date is missing or unparsable.
C1_DaysOnsiteClamped ==
    Loaded =>
        \A i \in 1..Len(df.rows) :
            LET mob == RawCell(i, "Mobilization Date")
                d == Cell(df.rows[i], "Days Onsite")
            IN /\ Missing(d) <=> mob.k \notin {"date", "num"}
               /\ ~Missing(d) => d.k = "num" /\ d.n >= 0
               /\ (mob.k = "date" /\ mob.n > loadNow) => d = Num(0)

\* A record mobilized in the future was loaded with Days Onsite 0.
C1_Witness ==
    /\ Loaded
    /\ \E i \in 1..Len(df.rows) :
          /\ RawCell(i, "Mobilization Date").k = "date"
          /\ RawCell(i, "Mobilization Date").n > loadNow
          /\ Cell(df.rows[i], "Days Onsite") = Num(0)

RecognizedBasis == {Text("Daily"), Text("Weekly"), Text("Monthly")}

\* C2: after load_data, Estimated Total Cost is the present value 0 whenever
\* the Billing Basis is absent or unrecognized or the Unit Rate or the Days
\* Onsite is missing, also when one of their columns does not exist.
C2_ZeroCostAlwaysPresent ==
    Loaded =>
        \A i \in 1..Len(df.rows) :
            LET basis == Cell(df.rows[i], "Billing Basis")
                rate == Cell(df.rows[i], "Unit Rate")
                days == Cell(df.rows[i], "Days Onsite")
            IN (Missing(basis) \/ basis \notin RecognizedBasis
                  \/ Missing(rate) \/ Missing(days))
               => Cell(df.rows[i], "Estimated Total Cost") = Num(0)

\* C3: for a record with Billing Basis, Unit Rate and Days Onsite present the
\* cost is days x rate (Daily), (days / 7) x rate (Weekly), (days / 30) x rate
\* (Monthly); Daily/100/10 gives 1000, Weekly/700/14 1400, Monthly/3000/30 3000.
C3_CostByBillingBasis ==
    Loaded =>
        \A i \in 1..Len(df.rows) :
            LET basis == Cell(df.rows[i], "Billing Basis")
                rate == Cell(df.rows[i], "Unit Rate")
                days == Cell(df.rows[i], "Days Onsite")
                cost == Cell(df.rows[i], "Estimated Total Cost")
            IN (~Missing(basis) /\ ~Missing(rate) /\ ~Missing(days)) =>
                 /\ cost.k = "num"
                 /\ basis = Text("Daily") => cost.n = days.n * rate.n * CostDen
                 /\ basis = Text("Weekly") => cost.n * 7 = days.n * rate.n * CostDen
                 /\ basis = Text("Monthly") => cost.n * 30 = days.n * rate.n * CostDen
                 /\ (basis = Text("Daily") /\ rate.n = 100 /\ days.n = 10)
                       => cost.n = 1000 * CostDen
                 /\ (basis = Text("Weekly") /\ rate.n = 700 /\ days.n = 14)
                       => cost.n = 1400 * CostDen
                 /\ (basis = Text("Monthly") /\ rate.n = 3000 /\ days.n = 30)
                       => cost.n = 3000 * CostDen

\* A Weekly record of rate 700 and 14 days onsite was loaded with cost 1400.
C3_Witness ==
    /\ Loaded
    /\ \E i \in 1..Len(df.rows) :
          /\ Cell(df.rows[i], "Billing Basis") = Text("Weekly")
          /\ Cell(df.rows[i], "Unit Rate") = Num(700)
          /\ Cell(df.rows[i], "Days Onsite") = Num(14)
          /\ Cell(df.rows[i], "Estimated Total Cost") = Num(1400 * CostDen)

\* calculate_kpis has returned in this run; the filter step has run.
KpisDone == kpiNow # -1
Filtered == pc \in {"filtered", "kpis", "alerts", "vendor", "timeline", "done"}
            \/ KpisDone

RollupTotal(groups) == SumSeq([i \in 1..Len(groups) |-> groups[i].TotalCost])

\* The summed cost of the records of filtered_df that have no Vendor.
MissingVendorCost ==
    SumSeq([i \in 1..Len(filtered_df.rows) |->
              IF filtered_df.rows[i]["Vendor"].k = "text" THEN 0
              ELSE filtered_df.rows[i]["Estimated Total Cost"].n])

\* C4 as claimed: the group costs of the vendor rollup add up to total_cost
\* of calculate_kpis for the same record set, also with missing vendors.
C4_RollupEqualsTotalCost ==
    /\ "vendor_summary" \in delivered
          => RollupTotal(vendor_summary) = kpis.total_cost
    /\ (pc = "done" /\ "Vendor" \in filtered_df.cols)
          => RollupTotal(vendor_export) = kpis.total_cost

\* C4 as amended: the group costs of the vendor rollup add up to total_cost
\* less the cost of the records whose Vendor is missing, which are in no group.
C4_RollupPlusMissingVendor ==
    /\ "vendor_summary" \in delivered
          => RollupTotal(vendor_summary) + MissingVendorCost = kpis.total_cost
    /\ (pc = "done" /\ "Vendor" \in filtered_df.cols)
          => RollupTotal(vendor_export) + MissingVendorCost = kpis.total_cost

\* A vendor group was built beside a record without vendor that has cost.
C4_Witness ==
    /\ pc = "done"
    /\ Len(vendor_summary) = 1
    /\ Len(vendor_export) = 1
    /\ Len(filtered_df.rows) = 2
    /\ MissingVendorCost > 0
    /\ vendor_summary[1].TotalCost > 0

\* C5: alerts is the number of records with an overdue inspection plus the
\* number of records over their planned duration; a record with Next
\* Inspection Due = yesterday and Duration Variance = 10 counts 2.
C5_AlertsSumOfRules ==
    KpisDone =>
        LET rows == filtered_df.rows
            due(i) == Cell(rows[i], "Next Inspection Due")
            var(i) == Cell(rows[i], "Duration Variance")
            nOverdue == Cardinality({i \in 1..Len(rows) :
                                       due(i).k = "date" /\ due(i).n < kpiNow})
            nOver == Cardinality({i \in 1..Len(rows) :
                                    var(i).k = "num" /\ var(i).n > 7})
        IN /\ kpis.alerts = nOverdue + nOver
           /\ (Len(rows) = 1 /\ due(1) = Date(kpiNow - TicksPerDay)
                 /\ var(1) = Num(10)) => kpis.alerts = 2

\* The KPIs of one record due yesterday with variance 10 were computed.
C5_Witness ==
    /\ KpisDone
    /\ Len(filtered_df.rows) = 1
    /\ Cell(filtered_df.rows[1], "Next Inspection Due") = Date(kpiNow - TicksPerDay)
    /\ Cell(filtered_df.rows[1], "Duration Variance") = Num(10)
    /\ kpis.alerts = 2

\* A record matches the selections: exact equality in every dimension that
\* is not 'All'.
MatchesSelection(row) ==
    \A d \in FilterDims : sel[d] # "All" => Cell(row, d) = Text(sel[d])

\* C6: the filter step returns exactly the records of the canonical set that
\* equal the selected value in every dimension not set to 'All', in their
\* order; with every dimension 'All' it returns the canonical set unchanged.
C6_FilterExactConjunctive ==
    Filtered =>
        /\ filtered_df.cols = df.cols
        /\ filtered_df.rows = SelectSeq(df.rows, MatchesSelection)
        /\ sel = AllSelected => filtered_df = df

\* Two criteria were applied and kept one record of two.
C6_Witness ==
    /\ Filtered
    /\ sel["Vendor"] # "All"
    /\ sel["Category"] # "All"
    /\ Len(df.rows) = 2
    /\ Len(filtered_df.rows) = 1

ZeroKpis == [total |-> 0, active |-> 0, idle |-> 0, maintenance |-> 0,
             total_cost |-> 0, alerts |-> 0]

ContainsActive == {"Active", "ACTIVE - Night Shift", "Inactive"}
ContainsIdle == {"Idle", "idle", "Idle - Maintenance"}
ContainsMaintenance == {"Maintenance", "Idle - Maintenance", "Under Maintenance"}

StatusIn(texts) ==
    Cardinality({i \in 1..Len(filtered_df.rows) :
                    /\ filtered_df.rows[i]["Current Status"].k = "text"
                    /\ filtered_df.rows[i]["Current Status"].s \in texts})

\* C8: a record counts as active (idle, maintenance) exactly when its status
\* contains 'Active' ('Idle', 'Maintenance') ignoring case; a missing status
\* counts nowhere and an absent status column gives three zero counts.
C8_StatusSubstringCounts ==
    KpisDone =>
        IF "Current Status" \in filtered_df.cols
        THEN /\ kpis.active = StatusIn(ContainsActive)
             /\ kpis.idle = StatusIn(ContainsIdle)
             /\ kpis.maintenance = StatusIn(ContainsMaintenance)
        ELSE kpis.active = 0 /\ kpis.idle = 0 /\ kpis.maintenance = 0

\* An upper-case, suffixed status was counted active beside a missing one.
C8_Witness ==
    /\ KpisDone
    /\ Len(filtered_df.rows) = 2
    /\ filtered_df.rows[1]["Current Status"] = Text("ACTIVE - Night Shift")
    /\ filtered_df.rows[2]["Current Status"] = NaN
    /\ kpis.active = 1
    /\ kpis.total = 2

\* C9: the clock readings of load_data, calculate_kpis and the alerts section
\* of a run are identical, so the alert count equals the sizes of the two
\* drill-down lists added together.
C9_SingleTimestamp ==
    drillNow # -1 =>
        /\ loadNow = kpiNow
        /\ kpiNow = drillNow
        /\ kpis.alerts = Len(overdue) + Len(over_duration)

\* load_data raised in this run.
LoadFailed == pc = "error" /\ loadNow = -1

\* C10: load_data raises only for a file that is no table; text in a date
\* column and non-numeric text in Unit Rate, Quantity or Planned Duration
\* (Days) become missing, the Duration Variance of that record too.
C10_NoRaiseOnMalformedCell ==
    /\ LoadFailed => file.corrupt
    /\ Loaded =>
          \A i \in 1..Len(df.rows) :
              /\ \A c \in date_cols \cup {"Unit Rate", "Quantity",
                                          "Planned Duration (Days)"} :
                    RawCell(i, c).k = "text" => Cell(df.rows[i], c) = NaN
              /\ RawCell(i, "Planned Duration (Days)").k = "text"
                    => Missing(Cell(df.rows[i], "Duration Variance"))

\* A stage after load_data raised in this run.
StageFailed == pc = "error" /\ Loaded

\* C11: whatever subset of the recognized columns the input has, no stage
\* after load_data (KPIs, alerts, vendor rollup, timeline, exports) raises.
C11_NoStageRaises == ~StageFailed

\* C12: a failed run reports exactly one failure and has delivered none of
\* its results (KPI snapshot, alert lists, rollup tables) before it.
C12_FailedRunAtomic ==
    pc = "error" => (errors = 1 /\ delivered = {})

\* C13: no stage changes its input: through filtering, KPIs, alerts and
\* rollups the canonical record set stays what load_data returned (values,
\* fields and order), and so does the cached copy a later run starts from.
C13_CanonicalSetUnchanged ==
    Loaded =>
        /\ df = load_data(file, loadNow).df
        /\ cache = [hit |-> TRUE, df |-> df, at |-> loadNow]

\* A run went through every stage with a filter that kept one record of two.
C13_Witness ==
    /\ pc = "done"
    /\ sel # AllSelected
    /\ Len(filtered_df.rows) = 1
    /\ Len(df.rows) = 2
    /\ df = load_data(file, loadNow).df

\* The order of the vendor names of the inputs.
KeyBefore(a, b) == a = "Acme" /\ b = "Bolt"

\* Descending summed cost, groups of equal cost by ascending key.
CostDescKeyAsc(t) ==
    \A i, j \in 1..Len(t) :
        i < j => \/ t[i].TotalCost > t[j].TotalCost
                 \/ /\ t[i].TotalCost = t[j].TotalCost
                    /\ KeyBefore(t[i].Vendor, t[j].Vendor)

KeyAsc(t) ==
    \A i, j \in 1..Len(t) : i < j => KeyBefore(t[i].Vendor, t[j].Vendor)

StoppedOnOverdue ==
    pc = "error" /\ overdue # <<>> /\ ~(DrillCols \subseteq filtered_df.cols)

DueBefore(row, t) ==
    Cell(row, "Next Inspection Due").k = "date"
        /\ Cell(row, "Next Inspection Due").n < t

VarianceOver7(row) ==
    Cell(row, "Duration Variance").k = "num"
        /\ Cell(row, "Duration Variance").n > 7

\* C15: a record is listed as overdue exactly when its Next Inspection Due
\* is present and strictly before the clock reading of the evaluation, and
\* as over duration exactly when its Duration Variance is present and
\* greater than 7; each rule is evaluated without regard to the other.
C15_AlertRules ==
    drillNow # -1 =>
        LET dueNow(row) == DueBefore(row, drillNow)
        IN /\ overdue = SelectSeq(filtered_df.rows, dueNow)
           /\ ~StoppedOnOverdue
                 => over_duration = SelectSeq(filtered_df.rows, VarianceOver7)
           /\ Len(filtered_df.rows) = 1 =>
                 kpis.alerts =
                    (IF DueBefore(filtered_df.rows[1], kpiNow) THEN 1 ELSE 0)
                    + (IF VarianceOver7(filtered_df.rows[1]) THEN 1 ELSE 0)

\* A record overdue for inspection with a variance of exactly 7 was listed
\* as overdue and not as over duration.
C15_Witness ==
    /\ pc = "alerts"
    /\ Len(filtered_df.rows) = 1
    /\ Cell(filtered_df.rows[1], "Duration Variance") = Num(7)
    /\ overdue = filtered_df.rows
    /\ over_duration = <<>>
    /\ kpis.alerts = 1

\* The status texts of the inputs that contain more than one pattern.
ContainsSeveral ==
    (ContainsActive \cap ContainsIdle) \cup (ContainsActive \cap ContainsMaintenance)
        \cup (ContainsIdle \cap ContainsMaintenance)

\* C16 as claimed: active + idle + maintenance never exceeds total.
C16_BucketsWithinTotal ==
    KpisDone => kpis.active + kpis.idle + kpis.maintenance <= kpis.total

\* C16 as amended: each of active, idle and maintenance is at most total, and
\* their sum is at most total when no status contains two of the patterns.
C16_BucketsWithinTotalIfDisjoint ==
    KpisDone =>
        /\ kpis.active <= kpis.total
        /\ kpis.idle <= kpis.total
        /\ kpis.maintenance <= kpis.total
        /\ ("Current Status" \notin filtered_df.cols \/ StatusIn(ContainsSeveral) = 0)
              => kpis.active + kpis.idle + kpis.maintenance <= kpis.total

\* One record whose status contains two patterns was counted in two buckets.
C16_Witness ==
    /\ KpisDone
    /\ kpis.total = 1
    /\ Cell(filtered_df.rows[1], "Current Status") = Text("Idle - Maintenance")
    /\ kpis.idle = 1
    /\ kpis.maintenance = 1

====
